---- MODULE Spec2Model ----
(***************************************************************************)
(* Deployment orchestration of QUARK (app/services/deployment.py,          *)
(* app/tasks/deployment.py, app/services/resource.py, app/utils/docker.py, *)
(* app/utils/nginx.py).                                                    *)
(*                                                                         *)
(* The entity store is the table of Deployment rows, in creation order     *)
(* (a row's index is its id and its created_at rank).  The container       *)
(* engine is the list of containers ever started.  Each worker executes    *)
(* a request (api/deployments.py create_deployment, api/github.py          *)
(* github_webhook): create_deployment, then trigger_deployment on the new  *)
(* row, one step at a time; the steps are cut at the commits and at the    *)
(* engine / routing calls, the places where another worker sharing the     *)
(* database and the engine can run.                                        *)
(*                                                                         *)
(* Spec is the program as its endpoints drive it.  SpecService adds the    *)
(* direct service call trigger_deployment(id) on a deployment that has     *)
(* already finished.  SpecLookup adds the calls with ids that are in no    *)
(* table, SpecSweep and SpecRetire the cleanup tasks of                    *)
(* app/tasks/deployment.py run on their own, SpecMetrics the calls of      *)
(* MonitoringService.get_app_metrics (app/services/monitoring.py); in      *)
(* these the variable reply holds what the caller of the last such call    *)
(* got back.                                                               *)
(*                                                                         *)
(* SpecWs is the websocket endpoint of app/api/ws.py on its own: the       *)
(* ConnectionManager registry, the websockets, and one                     *)
(* send_personal_message call at a time, cut at its awaited send_json.     *)
(***************************************************************************)
EXTENDS Naturals, Integers, Sequences, FiniteSets, TLC

\* ---- bounds of the model -------------------------------------------------
MaxDeployments == 2
MaxContainers == 2
MaxRetriggers == 1
MaxSockets == 3

\* ---- program constants ---------------------------------------------------
MAX_CPU_PERCENT == 80
MAX_MEMORY_GB == 14

\* two worker processes serve requests over one database and one engine
Workers == {1, 2}
\* the registered applications
Apps == {1, 2, 3}
\* the application ids a caller may pass: 4 is in no table
AppIds == Apps \cup {4}

\* the user ids a websocket may be opened under, and the WebSocket objects
Users == {1, 2}
Sockets == 1..MaxSockets

\* None of the Optional[...] fields
NoId == 0
NoText == "null"

\* DeploymentStatus
PENDING == "pending"
BUILDING == "building"
DEPLOYING == "deploying"
SUCCESSFUL == "successful"
FAILED == "failed"
DeploymentStatus == {PENDING, BUILDING, DEPLOYING, SUCCESSFUL, FAILED}
InFlight == {PENDING, BUILDING, DEPLOYING}
Terminal == {SUCCESSFUL, FAILED}

\* str(e) of the exceptions trigger_deployment can catch
InsufficientResources == "Insufficient resources available"
HealthCheckFailed == "Health check failed"
BuildError == "BuildError"
RunError == "RunError"
RouteError == "RouteError"
StopError == "StopError"
Causes == {InsufficientResources, HealthCheckFailed, BuildError, RunError,
           RouteError, StopError}

\* Application.cpu_limit / memory_limit of the registered applications
\* (unvalidated numbers): application 3 asks for more cpu than the ceiling
cpu_limit(a) == IF a = 3 THEN 100 ELSE 50
memory_limit(a) == 512

VARIABLES
    deployments,   \* Deployment table: Seq of [application_id, status, container_id, logs]
    ctrs,          \* container engine: Seq of [app, running, stops]
    route,         \* app_<id>.conf written by NginxManager: app -> container
    w,             \* per worker: the trigger_deployment call it executes
    triggers,      \* number of trigger_deployment calls made on finished rows
    reply,         \* what the caller of the last observed call got back
    applications,  \* Application table: application id -> [status]
    active_connections,  \* ConnectionManager: user id -> list of websockets
    sockets,       \* the websockets: state of each
    publish,       \* the send_personal_message call in progress
    collector      \* the start_metrics_collection task

\* the state of the websocket endpoint (app/api/ws.py)
ws == <<active_connections, sockets, publish>>

vars == <<deployments, ctrs, route, w, triggers, reply, applications, ws,
          collector>>

DeploymentIds == 1..Len(deployments)
ContainerIds == 1..Len(ctrs)

\* what a caller gets from a call: the exception that reached it (raised)
\* or the error value it was handed, the engine calls the call made, and
\* the key/value pairs of a dict it returned
NoReply ==
    [op |-> "none", arg |-> NoId, error |-> NoText, raised |-> FALSE,
     calls |-> <<>>, value |-> {}, failed |-> {}]

\* a worker that executes no call.  Of a running call the record holds the
\* position (pc), the locals (dep, container, err, the status set in memory
\* and not yet committed, the exception leaving the handler) and a history
\* of the calls it made: the admission result, the number of run_container
\* calls, the container run_container returned, the stop_container and
\* update_config calls in order, the application's latest SUCCESSFUL
\* row and its container as they were when the call began, the steps of the
\* try block in the order they were called, each with whether it returned
\* success (calls), what the inspection of _check_health reported, and the
\* number of containers the engine had started when check_availability
\* was called (started).
IdleWorker ==
    [pc |-> "idle", dep |-> NoId, container |-> NoId, err |-> NoText,
     mstatus |-> NoText, raised |-> NoText,
     admitted |-> "na", runCalls |-> 0, ranC |-> NoId,
     stopInv |-> <<>>, routeInv |-> <<>>, pre |-> NoId, preC |-> NoId,
     calls |-> <<>>, inspected |-> "na", started |-> 0]

\* the worker records ww with one more step called by p
Called(ww, p, fn, ok) ==
    [ww EXCEPT ![p].calls = Append(@, [fn |-> fn, ok |-> ok])]

\* a WebSocket object: not yet accepted ("new"), accepted with the peer
\* there ("open"), or accepted with the peer gone ("gone"); the user id it
\* was opened under; whether its endpoint has unregistered it
NewSocket == [state |-> "new", user |-> NoId, left |-> FALSE, raised |-> NoText]

\* no send_personal_message call made yet.  Of a call the record holds the
\* position (pc: "sending" while send_json is awaited, "returned" after the
\* call ended), the user id, the number of list items the for loop has
\* taken (i), the item in hand (connection), whether the list object the
\* loop iterates is no longer the one in the registry (detached), and a
\* history: the list as it was when the call began (start), the sockets
\* send_json returned on, in order (sent), the sockets it raised on
\* (failed), the exception that left the call (raised) and whether another
\* task changed the user's entry during the call (others).
NoPublish ==
    [pc |-> "idle", user |-> NoId, i |-> 0, connection |-> NoId,
     detached |-> FALSE, start |-> <<>>, sent |-> <<>>, failed |-> {},
     raised |-> NoText, others |-> FALSE]

\* the host sample among the samples of an iteration (the others are
\* application ids)
HostSample == 0

\* start_metrics_collection not called yet.  Of the task the record holds
\* the position (pc: "host" at the top of the while loop, "apps" inside the
\* for loop, "sleep" while asyncio.sleep is awaited, "ended" after an
\* exception left the coroutine, "cancelled"), the worker process whose
\* event loop runs it (loop), its argument (app_ids), the number of list
\* items the for loop has taken (i), the samples taken in the iteration,
\* in order (sampled), the stats of the last container sample (stats) and
\* the exception that left the coroutine (raised).
NoCollector ==
    [pc |-> "off", loop |-> NoId, app_ids |-> <<>>, i |-> 0,
     sampled |-> <<>>, stats |-> [cpu_usage |-> 0, memory_usage |-> 0],
     raised |-> NoText]

Init ==
    /\ deployments = <<>>
    /\ ctrs = <<>>
    /\ route = [a \in Apps |-> NoId]
    /\ w = [p \in Workers |-> IdleWorker]
    /\ triggers = 0
    /\ reply = NoReply
    /\ applications = [a \in Apps |-> [status |-> "created"]]
    /\ active_connections = [u \in {} |-> <<>>]
    /\ sockets = [s \in Sockets |-> NewSocket]
    /\ publish = NoPublish
    /\ collector = NoCollector

\* ---- entity store --------------------------------------------------------
\* select(Deployment).where(application_id == a).where(status == st)
\*   .order_by(created_at.desc()).first(), NoId when there is no such row
LatestWithStatus(a, st) ==
    LET S == {d \in DeploymentIds : /\ deployments[d].application_id = a
                                    /\ deployments[d].status = st}
    IN IF S = {} THEN NoId ELSE CHOOSE d \in S : \A e \in S : e <= d

\* ---- container engine (DockerManager) ------------------------------------
IsRunning(c) == c \in ContainerIds /\ ctrs[c].running

\* DockerManager.stop_container (lines 65-72) past container.stop(), with the
\* engine's containers as in cc: the container is stopped; a container that
\* is already gone is a no-op (NotFound)
StopIn(cc, c) ==
    IF c \in DOMAIN cc
    THEN [cc EXCEPT ![c].running = FALSE, ![c].stops = @ + 1]
    ELSE cc

\* DockerManager.stop_container returning normally: the container is stopped
\* and removed
StopContainer(c) == StopIn(ctrs, c)

\* DockerManager.stop_container raising at container.remove() (line 70): the
\* container was stopped by line 69 and the call did not return
HaltIn(cc, c) ==
    IF c \in DOMAIN cc THEN [cc EXCEPT ![c].running = FALSE] ELSE cc

\* ---- resource admission (ResourceManager) --------------------------------
\* cpu of the executions in ps that were admitted and have not yet started
\* their container
RECURSIVE AdmittedCpu(_)
AdmittedCpu(ps) ==
    IF ps = {} THEN 0
    ELSE LET p == CHOOSE x \in ps : TRUE
         IN (IF w[p].pc = "run"
             THEN cpu_limit(deployments[w[p].dep].application_id)
             ELSE 0) + AdmittedCpu(ps \ {p})

\* get_current_usage counting what admitted executions are about to start,
\* as a check holding a lock up to the start of the container would
get_current_usage_reserving ==
    [cpu_percent |-> AdmittedCpu(Workers), memory_mb |-> 0]

\* DeploymentService builds ResourceManager() without a session, so
\* get_current_usage adds no container to the sums
get_current_usage == [cpu_percent |-> 0, memory_mb |-> 0]

check_availability(cpu_request, memory_request) ==
    LET current_usage == get_current_usage
        total_cpu == current_usage.cpu_percent + cpu_request
        total_memory == current_usage.memory_mb + memory_request
    IN /\ total_cpu <= MAX_CPU_PERCENT
       /\ total_memory <= MAX_MEMORY_GB * 1024

\* ---- DeploymentService.create_deployment ---------------------------------
ApplicationNotFound == "Application not found"
DeploymentNotFound == "Deployment not found"

\* the caller of a call that raised ValueError(text) before doing anything
NotFound(op, text) ==
    [NoReply EXCEPT !.op = op, !.error = text, !.raised = TRUE]

\* create_deployment with the existence check of lines 23-27 left out
create_deployment_unchecked(p, a) ==
    /\ w[p].pc = "idle"
    /\ \A q \in Workers : q < p => w[q].pc # "idle"
    /\ Len(deployments) < MaxDeployments
    /\ deployments' = Append(deployments,
           [application_id |-> a, status |-> PENDING,
            container_id |-> NoId, logs |-> NoText])
    /\ w' = [w EXCEPT ![p].pc = "created", ![p].dep = Len(deployments) + 1]
    /\ UNCHANGED <<ctrs, route, triggers, reply, applications, ws, collector>>

\* lines 23-27: an application id that is not in the table raises ValueError.
\* lines 29-37: the new row, committed.  The request handler (api/deployments.py
\* lines 171-180, api/github.py lines 155-163) goes on to trigger_deployment
\* with the id of the row.  Idle workers are interchangeable: the first of
\* them takes the request.
create_deployment(p, a) ==
    /\ w[p].pc = "idle"
    /\ \A q \in Workers : q < p => w[q].pc # "idle"
    /\ IF a \notin Apps
       THEN /\ reply' = NotFound("create_deployment", ApplicationNotFound)
            /\ UNCHANGED <<deployments, ctrs, route, w, triggers, applications, ws, collector>>
       ELSE /\ Len(deployments) < MaxDeployments
            /\ deployments' = Append(deployments,
                   [application_id |-> a, status |-> PENDING,
                    container_id |-> NoId, logs |-> NoText])
            /\ w' = [w EXCEPT ![p].pc = "created", ![p].dep = Len(deployments) + 1]
            /\ UNCHANGED <<ctrs, route, triggers, reply, applications, ws, collector>>

\* ---- DeploymentService.trigger_deployment --------------------------------
AppOf(p) == deployments[w[p].dep].application_id

\* lines 93-100, entered from the step that raised e, whose effect on the
\* worker is ww: status = FAILED and logs = str(e) are set in memory; when
\* the row holds a container_id, stop_container is called on it.  A stop
\* that raises leaves the handler with that exception: finally still runs
\* and the exception then reaches the caller.
ExceptHandlerIn(p, e, ww, cc) ==
    LET cid == deployments[w[p].dep].container_id
        failed == [ww EXCEPT ![p].pc = "finally", ![p].err = e,
                             ![p].mstatus = FAILED]
    IN IF cid = NoId
       THEN /\ w' = failed
            /\ ctrs' = cc
       ELSE \/ /\ ctrs' = StopIn(cc, cid)
               /\ w' = [failed EXCEPT ![p].stopInv = Append(@, cid)]
            \/ \* container.stop() raises
               /\ w' = [failed EXCEPT ![p].stopInv = Append(@, cid),
                                      ![p].raised = StopError]
               /\ ctrs' = cc
            \/ \* container.stop() returns, container.remove() raises
               /\ w' = [failed EXCEPT ![p].stopInv = Append(@, cid),
                                      ![p].raised = StopError]
               /\ ctrs' = HaltIn(cc, cid)

\* the handler entered with the engine's containers as they are
ExceptHandler(p, e, ww) == ExceptHandlerIn(p, e, ww, ctrs)

\* lines 41-50: load the row, status = BUILDING, commit
Begin(p, d) ==
    /\ deployments' = [deployments EXCEPT ![d].status = BUILDING]
    /\ LET a == deployments[d].application_id
           old == LatestWithStatus(a, SUCCESSFUL)
       IN w' = [w EXCEPT ![p] = [IdleWorker EXCEPT
                   !.pc = "build", !.dep = d, !.pre = old,
                   !.preC = IF old = NoId THEN NoId
                            ELSE deployments[old].container_id]]
    /\ UNCHANGED <<ctrs, route>>

\* trigger_deployment(deployment_record.id) of the request that created the row
TriggerBegin(p) ==
    /\ w[p].pc = "created"
    /\ Begin(p, w[p].dep)
    /\ UNCHANGED <<triggers, reply, applications, ws, collector>>

\* trigger_deployment(d) called once more, on a row that is SUCCESSFUL or
\* FAILED: the method has no guard on the status it finds
Retrigger(p, d) ==
    /\ w[p].pc = "idle"
    /\ \A q \in Workers : q < p => w[q].pc # "idle"
    /\ d \in DeploymentIds
    /\ deployments[d].status \in Terminal
    /\ triggers < MaxRetriggers
    /\ triggers' = triggers + 1
    /\ Begin(p, d)
    /\ UNCHANGED <<reply, applications, ws, collector>>

\* trigger_deployment(d) with an id that is not in the table, lines 41-43:
\* ValueError before the try block
TriggerMissing(d) ==
    /\ d \notin DeploymentIds
    /\ reply' = NotFound("trigger_deployment", DeploymentNotFound)
    /\ UNCHANGED <<deployments, ctrs, route, w, triggers, applications, ws, collector>>

\* BuildStep going on to run_container without the admission check
BuildStepNoAdmission(p) ==
    /\ w[p].pc = "build"
    /\ \/ /\ w' = [Called(w, p, "build_image", TRUE) EXCEPT ![p].pc = "run"]
          /\ UNCHANGED ctrs
       \/ ExceptHandler(p, BuildError, Called(w, p, "build_image", FALSE))
    /\ UNCHANGED <<deployments, route, triggers, reply, applications, ws, collector>>

\* lines 52-56: docker.build_image returns the image tag or raises
BuildStep(p) ==
    /\ w[p].pc = "build"
    /\ \/ /\ w' = [Called(w, p, "build_image", TRUE) EXCEPT ![p].pc = "admit"]
          /\ UNCHANGED ctrs
       \/ ExceptHandler(p, BuildError, Called(w, p, "build_image", FALSE))
    /\ UNCHANGED <<deployments, route, triggers, reply, applications, ws, collector>>

\* AdmitStep with the result of the check dropped: the deployment goes on
\* to DEPLOYING whatever check_availability returned
AdmitStepUnchecked(p) ==
    /\ w[p].pc = "admit"
    /\ deployments' = [deployments EXCEPT ![w[p].dep].status = DEPLOYING]
    /\ LET ok == check_availability(cpu_limit(AppOf(p)),
                                    memory_limit(AppOf(p)))
       IN w' = [Called(w, p, "check_availability", ok) EXCEPT
                   ![p].pc = "run", ![p].started = Len(ctrs),
                   ![p].admitted = IF ok THEN "yes" ELSE "no"]
    /\ UNCHANGED <<ctrs, route, triggers, reply, applications, ws, collector>>

\* lines 58-67: admission check, then status = DEPLOYING, commit
AdmitStep(p) ==
    /\ w[p].pc = "admit"
    /\ IF check_availability(cpu_limit(AppOf(p)), memory_limit(AppOf(p)))
       THEN /\ deployments' = [deployments EXCEPT ![w[p].dep].status = DEPLOYING]
            /\ w' = [Called(w, p, "check_availability", TRUE) EXCEPT
                        ![p].pc = "run", ![p].admitted = "yes",
                        ![p].started = Len(ctrs)]
            /\ UNCHANGED ctrs
       ELSE /\ ExceptHandler(p, InsufficientResources,
                             [Called(w, p, "check_availability", FALSE)
                                 EXCEPT ![p].admitted = "no",
                                        ![p].started = Len(ctrs)])
            /\ UNCHANGED deployments
    /\ UNCHANGED <<route, triggers, reply, applications, ws, collector>>

\* lines 69-79: docker.run_container, container_id = container.id, commit
RunStep(p) ==
    /\ w[p].pc = "run"
    /\ \/ /\ Len(ctrs) < MaxContainers
          /\ LET c == Len(ctrs) + 1
             IN /\ ctrs' = Append(ctrs, [app |-> AppOf(p), running |-> TRUE,
                                         stops |-> 0])
                /\ deployments' = [deployments EXCEPT ![w[p].dep].container_id = c]
                /\ w' = [Called(w, p, "run_container", TRUE) EXCEPT
                            ![p].pc = "health", ![p].container = c,
                            ![p].ranC = c, ![p].runCalls = @ + 1]
       \/ /\ ExceptHandler(p, RunError,
                           [Called(w, p, "run_container", FALSE) EXCEPT
                               ![p].runCalls = @ + 1])
          /\ UNCHANGED deployments
    /\ UNCHANGED <<route, triggers, reply, applications, ws, collector>>

\* the application in the container started by p exits during the wait of
\* line 114, before the inspection
ContainerExits(p) ==
    /\ w[p].pc = "health"
    /\ IsRunning(w[p].container)
    /\ ctrs' = [ctrs EXCEPT ![w[p].container].running = FALSE]
    /\ UNCHANGED <<deployments, route, w, triggers, reply, applications, ws, collector>>

\* line 117, container.inspect(): what info["State"]["Running"] reports of
\* the container, or the call raising
inspect(c, raises) ==
    IF raises THEN "error"
    ELSE IF IsRunning(c) THEN "running" ELSE "exited"

\* check_health with the except clause of lines 126-128 returning True
check_health_open(info) == info # "exited"

\* _check_health (lines 109-128): one inspection after the wait; True only
\* when the inspection reports Running, False when it does not or raises
check_health(info) == info = "running"

\* lines 81-82 and 90-91
HealthStep(p) ==
    /\ w[p].pc = "health"
    /\ \E raises \in BOOLEAN :
          LET info == inspect(w[p].container, raises)
              ok == check_health(info)
              ww == [Called(w, p, "_check_health", ok) EXCEPT
                        ![p].inspected = info]
          IN IF ok
             THEN /\ w' = [ww EXCEPT ![p].pc = "route"]
                  /\ UNCHANGED ctrs
             ELSE ExceptHandler(p, HealthCheckFailed, ww)
    /\ UNCHANGED <<deployments, route, triggers, reply, applications, ws, collector>>

\* RouteStep with a second update_config call after one that failed past the
\* write of the file
RouteStepRetry(p) ==
    /\ w[p].pc = "route"
    /\ LET call == [app |-> AppOf(p), container |-> w[p].container]
           called == [Called(w, p, "update_config", FALSE) EXCEPT
                         ![p].routeInv = Append(@, call)]
           routed == [Called(w, p, "update_config", TRUE) EXCEPT
                         ![p].routeInv = Append(@, call)]
       IN \/ /\ IsRunning(w[p].container)
             /\ route' = [route EXCEPT ![AppOf(p)] = w[p].container]
             /\ w' = [routed EXCEPT ![p].pc = "cleanup"]
             /\ UNCHANGED ctrs
          \/ /\ ExceptHandler(p, RouteError, called)
             /\ UNCHANGED route
          \/ /\ IsRunning(w[p].container)
             /\ route' = [route EXCEPT ![AppOf(p)] = w[p].container]
             /\ w' = [Called(routed, p, "update_config", TRUE) EXCEPT
                         ![p].pc = "cleanup",
                         ![p].routeInv = Append(@, call)]
             /\ UNCHANGED ctrs
    /\ UNCHANGED <<deployments, triggers, reply, applications, ws, collector>>

\* line 84, NginxManager.update_config: inspect the container, write
\* app_<id>.conf, nginx -t, nginx -s reload; any failure is re-raised
RouteStep(p) ==
    /\ w[p].pc = "route"
    /\ LET call == [app |-> AppOf(p), container |-> w[p].container]
           called == [Called(w, p, "update_config", FALSE) EXCEPT
                         ![p].routeInv = Append(@, call)]
           routed == [Called(w, p, "update_config", TRUE) EXCEPT
                         ![p].routeInv = Append(@, call)]
       IN \/ /\ IsRunning(w[p].container)
             /\ route' = [route EXCEPT ![AppOf(p)] = w[p].container]
             /\ w' = [routed EXCEPT ![p].pc = "cleanup"]
             /\ UNCHANGED ctrs
          \/ \* the inspection raises: nothing is written
             /\ ExceptHandler(p, RouteError, called)
             /\ UNCHANGED route
          \/ \* the file is written, nginx -t or the reload fails
             /\ IsRunning(w[p].container)
             /\ route' = [route EXCEPT ![AppOf(p)] = w[p].container]
             /\ ExceptHandler(p, RouteError, called)
    /\ UNCHANGED <<deployments, triggers, reply, applications, ws, collector>>

\* line 87, tasks.cleanup_old_container(app_id), in a session of its own:
\* the latest SUCCESSFUL row of the application; when it holds a container,
\* stop it, clear container_id and commit.  A stop that raises is re-raised
\* with the row unchanged.  Line 89 then sets status = SUCCESSFUL in memory.
CleanupStep(p) ==
    /\ w[p].pc = "cleanup"
    /\ LET old_deployment == LatestWithStatus(AppOf(p), SUCCESSFUL)
           cid == IF old_deployment = NoId THEN NoId
                  ELSE deployments[old_deployment].container_id
           ok == [Called(w, p, "cleanup_old_container", TRUE) EXCEPT
                     ![p].pc = "finally", ![p].mstatus = SUCCESSFUL]
       IN IF cid = NoId
          THEN /\ w' = ok
               /\ UNCHANGED <<deployments, ctrs>>
          ELSE \/ /\ ctrs' = StopContainer(cid)
                  /\ deployments' = [deployments EXCEPT
                                        ![old_deployment].container_id = NoId]
                  /\ w' = [ok EXCEPT ![p].stopInv = Append(@, cid)]
               \/ \* container.stop() raises
                  /\ ExceptHandler(p, StopError,
                                   [Called(w, p, "cleanup_old_container", FALSE)
                                       EXCEPT ![p].stopInv = Append(@, cid)])
                  /\ UNCHANGED deployments
               \/ \* container.stop() returns, container.remove() raises
                  /\ ExceptHandlerIn(p, StopError,
                                     [Called(w, p, "cleanup_old_container", FALSE)
                                         EXCEPT ![p].stopInv = Append(@, cid)],
                                     HaltIn(ctrs, cid))
                  /\ UNCHANGED deployments
    /\ UNCHANGED <<route, triggers, reply, applications, ws, collector>>

\* Committed with the logs assignment of the handler left out
CommittedStatusOnly(p) ==
    [deployments[w[p].dep] EXCEPT !.status = w[p].mstatus]

\* the row as committed by lines 102-104: the attributes set in memory
Committed(p) ==
    LET row == deployments[w[p].dep]
    IN IF w[p].mstatus = FAILED
       THEN [row EXCEPT !.status = FAILED, !.logs = w[p].err]
       ELSE [row EXCEPT !.status = w[p].mstatus]

\* lines 102-107: commit, refresh, return the row (or let the exception of
\* the handler go to the caller); the worker is free again
FinallyStep(p) ==
    /\ w[p].pc = "finally"
    /\ deployments' = [deployments EXCEPT ![w[p].dep] = Committed(p)]
    /\ w' = [w EXCEPT ![p] = IdleWorker]
    /\ UNCHANGED <<ctrs, route, triggers, reply, applications, ws, collector>>

\* ---- app/tasks/deployment.py ---------------------------------------------
EngineCall(fn, c) == [fn |-> fn, container |-> c]

\* the rows of a set in the order the select returns them (by id)
RECURSIVE InOrder(_)
InOrder(S) ==
    IF S = {} THEN <<>>
    ELSE LET d == CHOOSE x \in S : \A y \in S : x <= y
         IN <<d>> \o InOrder(S \ {d})

\* cleanup_old_container that stops the container and leaves the row as it was
cleanup_old_container_keep(a) ==
    LET old_deployment == LatestWithStatus(a, SUCCESSFUL)
        cid == IF old_deployment = NoId THEN NoId
               ELSE deployments[old_deployment].container_id
        ret == [NoReply EXCEPT !.op = "cleanup_old_container", !.arg = a]
    IN /\ IF cid = NoId
          THEN /\ reply' = ret
               /\ UNCHANGED ctrs
          ELSE /\ ctrs' = StopContainer(cid)
               /\ reply' = [ret EXCEPT
                               !.calls = <<EngineCall("stop_container", cid)>>]
       /\ UNCHANGED <<deployments, route, w, triggers, applications, ws, collector>>

\* cleanup_old_container(app_id) called on its own (lines 10-32): the latest
\* SUCCESSFUL row of the application; when it holds a container, stop it,
\* clear container_id and commit; a stop that raises is logged and re-raised
cleanup_old_container(a) ==
    LET old_deployment == LatestWithStatus(a, SUCCESSFUL)
        cid == IF old_deployment = NoId THEN NoId
               ELSE deployments[old_deployment].container_id
        ret == [NoReply EXCEPT !.op = "cleanup_old_container", !.arg = a]
        called == [ret EXCEPT !.calls = <<EngineCall("stop_container", cid)>>]
    IN /\ IF cid = NoId
          THEN /\ reply' = ret
               /\ UNCHANGED <<deployments, ctrs>>
          ELSE \/ /\ ctrs' = StopContainer(cid)
                  /\ deployments' = [deployments EXCEPT
                                        ![old_deployment].container_id = NoId]
                  /\ reply' = called
               \/ /\ reply' = [called EXCEPT !.raised = TRUE,
                                              !.error = StopError]
                  /\ UNCHANGED <<deployments, ctrs>>
               \/ \* container.stop() returns, container.remove() raises
                  /\ reply' = [called EXCEPT !.raised = TRUE,
                                              !.error = StopError]
                  /\ ctrs' = HaltIn(ctrs, cid)
                  /\ UNCHANGED deployments
       /\ UNCHANGED <<route, w, triggers, applications, ws, collector>>

\* the FAILED rows
FailedRows == {d \in DeploymentIds : deployments[d].status = FAILED}

\* the FAILED rows that still hold a container_id (lines 40-44)
FailedWithContainer ==
    {d \in FailedRows : deployments[d].container_id # NoId}

\* cleanup_failed_deployments that stops the containers and leaves the rows
\* as they were
cleanup_failed_deployments_keep(done) ==
    /\ done \subseteq FailedWithContainer
    /\ \A d \in done : \A e \in FailedWithContainer : e < d => e \in done
    /\ ctrs' = [c \in ContainerIds |->
                   LET n == Cardinality({d \in done : deployments[d].container_id = c})
                   IN IF n = 0 THEN ctrs[c]
                      ELSE [ctrs[c] EXCEPT !.running = FALSE, !.stops = @ + n]]
    /\ UNCHANGED <<deployments, route, w, triggers, applications, ws, collector>>

\* cleanup_failed_deployments (lines 34-54): the rows are handled one after
\* the other, each stop followed by its own commit; a stop that raises ends
\* the run with the remaining rows untouched.  `done` is the set of rows
\* handled before the run ended.
cleanup_failed_deployments(done) ==
    /\ done \subseteq FailedWithContainer
    /\ \A d \in done : \A e \in FailedWithContainer : e < d => e \in done
    /\ deployments' = [d \in DeploymentIds |->
                          IF d \in done
                          THEN [deployments[d] EXCEPT !.container_id = NoId]
                          ELSE deployments[d]]
    /\ ctrs' = [c \in ContainerIds |->
                   LET n == Cardinality({d \in done : deployments[d].container_id = c})
                   IN IF n = 0 THEN ctrs[c]
                      ELSE [ctrs[c] EXCEPT !.running = FALSE, !.stops = @ + n]]
    /\ UNCHANGED <<route, w, triggers, applications, ws, collector>>

\* what a run that handled `done` hands to its caller: the stop_container
\* calls it made, the last of them raising when rows were left
SweepReply(done) ==
    LET rest == InOrder(FailedWithContainer \ done)
        tried == IF rest = <<>> THEN InOrder(done)
                 ELSE Append(InOrder(done), rest[1])
    IN [NoReply EXCEPT
           !.op = "cleanup_failed_deployments",
           !.calls = [i \in DOMAIN tried |->
                         EngineCall("stop_container",
                                    deployments[tried[i]].container_id)],
           !.raised = (rest # <<>>),
           !.error = IF rest # <<>> THEN StopError ELSE NoText,
           !.failed = FailedRows]

\* a run of cleanup_failed_deployments whose outcome the caller sees
SweepRun(done) ==
    /\ cleanup_failed_deployments(done)
    /\ reply' = SweepReply(done)

\* ---- app/services/monitoring.py -------------------------------------------
\* the names bound in the module: its imports (lines 1-8), the gauges and
\* the class.  models.application.Application is not imported.
MonitoringGlobals ==
    {"Dict", "List", "Optional", "psutil", "Gauge", "CollectorRegistry",
     "Counter", "Histogram", "DockerManager", "Deployment", "Session",
     "select", "asyncio", "time", "REQUEST_COUNT", "RESPONSE_TIME",
     "CPU_USAGE", "MEMORY_USAGE", "MonitoringService"}

\* str(NameError) for a name that is not bound
NameError(name) ==
    IF name = "Application" THEN "name 'Application' is not defined"
    ELSE "name is not defined"

\* str(KeyError(key))
KeyError(key) ==
    IF key = "network_rx" THEN "'network_rx'" ELSE "'network_tx'"

NoActiveDeployment == "No active deployment found"

\* what the engine reports of container c, one number per measure
EngineStats(c) ==
    [cpu_usage |-> 10 + c, memory_usage |-> 20 + c,
     network_rx |-> 30 + c, network_tx |-> 40 + c]

\* DockerManager.get_container_stats (utils/docker.py lines 43-63): a dict of
\* cpu_usage and memory_usage, zeros for a container that is gone
get_container_stats(c) ==
    IF IsRunning(c)
    THEN [cpu_usage |-> EngineStats(c).cpu_usage,
          memory_usage |-> EngineStats(c).memory_usage]
    ELSE [cpu_usage |-> 0, memory_usage |-> 0]

\* the time of the call, int(time.time())
Now == 1

\* MonitoringService.get_app_metrics (lines 119-164): what the call hands
\* back.  Every exception inside the try block becomes {"error": str(e)}:
\* the look-up of a name the module does not bind, a key the stats dict
\* does not hold.
app_metrics(app_id) ==
    LET ret == [NoReply EXCEPT !.op = "get_app_metrics", !.arg = app_id]
    IN IF "Application" \notin MonitoringGlobals
       THEN [ret EXCEPT !.error = NameError("Application")]
       ELSE IF app_id \notin Apps
       THEN [ret EXCEPT !.error = ApplicationNotFound]
       ELSE LET deployment == LatestWithStatus(app_id, SUCCESSFUL)
                cid == IF deployment = NoId THEN NoId
                       ELSE deployments[deployment].container_id
            IN IF cid = NoId
               THEN [ret EXCEPT !.error = NoActiveDeployment]
               ELSE LET stats == get_container_stats(cid)
                        called == [ret EXCEPT !.calls =
                                      <<EngineCall("get_container_stats", cid)>>]
                    IN IF "network_rx" \notin DOMAIN stats
                       THEN [called EXCEPT !.error = KeyError("network_rx")]
                       ELSE IF "network_tx" \notin DOMAIN stats
                       THEN [called EXCEPT !.error = KeyError("network_tx")]
                       ELSE [called EXCEPT !.value =
                               {<<"cpu_usage", stats.cpu_usage>>,
                                <<"memory_usage", stats.memory_usage>>,
                                <<"network_rx", stats["network_rx"]>>,
                                <<"network_tx", stats["network_tx"]>>,
                                <<"timestamp", Now>>}]

\* a call of get_app_metrics: it reads, and changes nothing
get_app_metrics(app_id) ==
    /\ reply' = app_metrics(app_id)
    /\ UNCHANGED <<deployments, ctrs, route, w, triggers, applications, ws, collector>>

\* ---- MonitoringService.start_metrics_collection --------------------------
\* the lists of application ids the task is started with
AppIdLists == {<<1>>, <<1, 2>>, <<2, 1>>}

\* an error of the engine that is not docker.errors.NotFound
APIError == "APIError"

\* trigger_deployment suspends nowhere: build_image, run_container,
\* stop_container and update_config are plain calls (services/deployment.py
\* lines 53, 70, 84, 100), _check_health waits in time.sleep(5) (line 114)
\* and neither it nor cleanup_old_container awaits anything, so from its
\* first line to its return the call keeps the event loop of its process.
HoldsLoop(p) == w[p].pc \notin {"idle", "created"}

\* the task can take its next step: the event loop that runs it is not
\* kept by a trigger_deployment call
Runnable == collector.loop \in Workers /\ ~HoldsLoop(collector.loop)

\* the task is not started, is over, or waits in asyncio.sleep (line 117),
\* the one place where it gives the event loop back
Yielded == collector.pc \in {"off", "sleep", "ended", "cancelled"}

\* a worker that shares its event loop with the task runs only while the
\* task has yielded
LoopTurn ==
    \A p \in Workers : (w'[p] # w[p] /\ collector.loop = p) => Yielded

\* the task record after one more sample x: the for loop goes on, or, past
\* the last application id, asyncio.sleep is awaited (lines 114-117)
AfterSample(c, x) ==
    LET n == IF x = HostSample THEN 0 ELSE c.i + 1
    IN [c EXCEPT !.sampled = Append(@, x), !.i = n,
                 !.pc = IF n < Len(c.app_ids) THEN "apps" ELSE "sleep"]

\* line 107: the task is created on the event loop of worker process p
start_metrics_collection(app_ids, p) ==
    /\ collector.pc = "off"
    /\ ~HoldsLoop(p)
    /\ collector' = [NoCollector EXCEPT !.pc = "host", !.loop = p,
                                        !.app_ids = app_ids]
    /\ UNCHANGED <<deployments, ctrs, route, w, triggers, reply, applications,
                   ws>>

\* lines 109-111 and 92-105: the host sample of the iteration
collect_host_metrics ==
    /\ collector.pc = "host"
    /\ Runnable
    /\ collector' = AfterSample(collector, HostSample)
    /\ UNCHANGED <<deployments, ctrs, route, w, triggers, reply, applications,
                   ws>>

\* lines 113-115 and 65-90: the sample of the next application id.  With no
\* SUCCESSFUL deployment holding a container the sample is zeros; otherwise
\* get_container_stats is called (utils/docker.py lines 43-63), which
\* catches docker.errors.NotFound only: any other error of the engine
\* leaves it, leaves collect_container_metrics and leaves
\* start_metrics_collection, none of which has a handler.
collect_container_metrics(outcome) ==
    /\ collector.pc = "apps"
    /\ Runnable
    /\ LET app_id == collector.app_ids[collector.i + 1]
           deployment == LatestWithStatus(app_id, SUCCESSFUL)
           cid == IF deployment = NoId THEN NoId
                  ELSE deployments[deployment].container_id
       IN IF cid = NoId
          THEN /\ outcome = "ok"
               /\ collector' =
                     AfterSample([collector EXCEPT !.stats =
                                     [cpu_usage |-> 0, memory_usage |-> 0]],
                                 app_id)
          ELSE IF outcome = "ok"
          THEN collector' =
                  AfterSample([collector EXCEPT !.stats =
                                  get_container_stats(cid)],
                              app_id)
          ELSE collector' = [collector EXCEPT !.pc = "ended",
                                              !.raised = APIError]
    /\ UNCHANGED <<deployments, ctrs, route, w, triggers, reply, applications,
                   ws>>

\* line 117: asyncio.sleep(15) returns and the next iteration begins
SleepReturns ==
    /\ collector.pc = "sleep"
    /\ Runnable
    /\ collector' = [collector EXCEPT !.pc = "host", !.i = 0,
                                      !.sampled = <<>>]
    /\ UNCHANGED <<deployments, ctrs, route, w, triggers, reply, applications,
                   ws>>

\* the task is cancelled: CancelledError is raised at the await of line 117
Cancel ==
    /\ collector.pc = "sleep"
    /\ Runnable
    /\ collector' = [collector EXCEPT !.pc = "cancelled"]
    /\ UNCHANGED <<deployments, ctrs, route, w, triggers, reply, applications,
                   ws>>

\* ---- websocket registry (api/ws.py, ConnectionManager) --------------------

\* websocket in the list l
InList(s, l) == \E i \in DOMAIN l : l[i] = s

\* l.remove(s): l without the first occurrence of s
Remove(l, s) ==
    LET i == CHOOSE k \in DOMAIN l :
                 l[k] = s /\ \A j \in 1..(k - 1) : l[j] # s
    IN SubSeq(l, 1, i - 1) \o SubSeq(l, i + 1, Len(l))

\* lines 24-26: the registry after websocket s was appended under user u
Appended(reg, s, u) ==
    [x \in DOMAIN reg \cup {u} |->
        IF x = u
        THEN Append(IF u \in DOMAIN reg THEN reg[u] ELSE <<>>, s)
        ELSE reg[x]]

\* Removed with the emptied list left under its key
RemovedKeepingKey(reg, s, u) ==
    [reg EXCEPT ![u] = Remove(reg[u], s)]

\* lines 30-32: the registry after s, listed under u, was removed; the key
\* is deleted with its last websocket
Removed(reg, s, u) ==
    LET l == Remove(reg[u], s)
    IN IF l = <<>>
       THEN [x \in DOMAIN reg \ {u} |-> reg[x]]
       ELSE [reg EXCEPT ![u] = l]

\* the record of a call that returned is kept until the next event
Kept(pub) == IF pub.pc = "returned" THEN NoPublish ELSE pub

\* the send_personal_message call in progress after another task changed
\* the entry of user u: the list object its loop iterates stays the same
\* object unless the key was deleted
Disturbed(pub, reg, u) ==
    IF pub.pc = "sending" /\ pub.user = u
    THEN [pub EXCEPT !.others = TRUE,
                     !.detached = @ \/ u \notin DOMAIN reg]
    ELSE Kept(pub)

\* lines 22-26, ConnectionManager.connect: accept, then append (the
\* websockets are taken in the order of their numbers)
connect(s, u) ==
    /\ sockets[s].state = "new"
    /\ \A t \in Sockets : t < s => sockets[t].state # "new"
    /\ sockets' = [sockets EXCEPT ![s] = [state |-> "open", user |-> u,
                                          left |-> FALSE,
                                          raised |-> NoText]]
    /\ active_connections' = Appended(active_connections, s, u)
    /\ publish' = Disturbed(publish, active_connections', u)
    /\ UNCHANGED <<deployments, ctrs, route, w, triggers, reply, applications, collector>>

\* the peer of an accepted websocket goes away
PeerCloses(s) ==
    /\ sockets[s].state = "open"
    /\ sockets' = [sockets EXCEPT ![s].state = "gone"]
    /\ publish' = Kept(publish)
    /\ UNCHANGED <<deployments, ctrs, route, w, triggers, reply, applications,
                   active_connections, collector>>

\* lines 28-32, ConnectionManager.disconnect called by the endpoint of s
\* (lines 140-141) or directly: when the user has an entry, s is removed
\* from it; list.remove raises ValueError out of the call when s is not in
\* the list (recorded in raised), and the registry is then left as it is
disconnect(s) ==
    /\ sockets[s].state # "new"
    /\ ~sockets[s].left
    /\ LET u == sockets[s].user
       IN /\ sockets' =
                [sockets EXCEPT ![s].left = TRUE,
                                ![s].raised =
                                   IF u \in DOMAIN active_connections
                                      /\ ~InList(s, active_connections[u])
                                   THEN "ValueError" ELSE NoText]
          /\ active_connections' =
                IF u \in DOMAIN active_connections
                   /\ InList(s, active_connections[u])
                THEN Removed(active_connections, s, u)
                ELSE active_connections
          /\ publish' = Disturbed(publish, active_connections', u)
    /\ UNCHANGED <<deployments, ctrs, route, w, triggers, reply, applications, collector>>

\* the for loop of line 36 taking its next item: a Python list iterator
\* keeps an index into the list object, so the item taken is the one at
\* that index in the list as it is now; the loop ends when the index is
\* past the end
NextItem(pub, reg) ==
    LET l == IF pub.detached \/ pub.user \notin DOMAIN reg THEN <<>>
             ELSE reg[pub.user]
    IN IF pub.i < Len(l)
       THEN [pub EXCEPT !.pc = "sending", !.i = @ + 1,
                        !.connection = l[pub.i + 1]]
       ELSE [pub EXCEPT !.pc = "returned", !.connection = NoId]

\* lines 34-37, send_personal_message(message, u) up to its first await
send_personal_message(u) ==
    /\ publish.pc # "sending"
    /\ publish' =
          IF u \in DOMAIN active_connections
          THEN NextItem([NoPublish EXCEPT !.user = u,
                                          !.start = active_connections[u]],
                        active_connections)
          ELSE [NoPublish EXCEPT !.pc = "returned", !.user = u]
    /\ UNCHANGED <<deployments, ctrs, route, w, triggers, reply, applications,
                   active_connections, sockets, collector>>

\* lines 37-42: the awaited send_json returns or raises, the except clause
\* runs, and the loop takes its next item.  A send to a websocket whose peer
\* is gone raises WebSocketDisconnect or another exception; on
\* WebSocketDisconnect disconnect(connection, user_id) is called, whose
\* list.remove raises ValueError out of the call when the websocket is no
\* longer listed; any other exception is logged.
send_json(outcome) ==
    /\ publish.pc = "sending"
    /\ LET c == publish.connection
           u == publish.user
           tried == [publish EXCEPT !.sent = Append(@, c)]
           failed == [tried EXCEPT !.failed = @ \cup {c}]
       IN /\ IF outcome = "ok" THEN sockets[c].state = "open"
             ELSE sockets[c].state = "gone"
          /\ CASE outcome = "ok" ->
                    /\ active_connections' = active_connections
                    /\ publish' = NextItem(tried, active_connections)
               [] outcome = "Exception" ->
                    /\ active_connections' = active_connections
                    /\ publish' = NextItem(failed, active_connections)
               [] outcome = "WebSocketDisconnect" ->
                    IF u \notin DOMAIN active_connections
                    THEN /\ active_connections' = active_connections
                         /\ publish' = NextItem(failed, active_connections)
                    ELSE IF InList(c, active_connections[u])
                    THEN /\ active_connections' =
                               Removed(active_connections, c, u)
                         /\ publish' =
                               NextItem([failed EXCEPT !.detached =
                                            @ \/ u \notin DOMAIN active_connections'],
                                        active_connections')
                    ELSE /\ active_connections' = active_connections
                         /\ publish' = [failed EXCEPT !.pc = "returned",
                                                      !.connection = NoId,
                                                      !.raised = "ValueError"]
    /\ UNCHANGED <<deployments, ctrs, route, w, triggers, reply, applications,
                   sockets, collector>>

\* the steps of a request after its create_deployment
Steps ==
    \/ \E p \in Workers : TriggerBegin(p)
    \/ \E p \in Workers : BuildStep(p)
    \/ \E p \in Workers : AdmitStep(p)
    \/ \E p \in Workers : RunStep(p)
    \/ \E p \in Workers : ContainerExits(p)
    \/ \E p \in Workers : HealthStep(p)
    \/ \E p \in Workers : RouteStep(p)
    \/ \E p \in Workers : CleanupStep(p)
    \/ \E p \in Workers : FinallyStep(p)

\* the applications a request may name: applications 1 and 2 have the same
\* limits, and the one that is deployed first is taken to be 1
RequestApps ==
    {a \in Apps :
        a = 2 => \E d \in DeploymentIds : deployments[d].application_id = 1}

Next ==
    \/ \E p \in Workers, a \in RequestApps : create_deployment(p, a)
    \/ Steps
    \/ \E done \in SUBSET DeploymentIds :
          cleanup_failed_deployments(done) /\ UNCHANGED reply

Spec == Init /\ [][Next]_vars

NextService ==
    \/ Next
    \/ \E p \in Workers, d \in DeploymentIds : Retrigger(p, d)

SpecService == Init /\ [][NextService]_vars

\* the service called with ids that may be in no table: requests for
\* application 1 and for application 4, which does not exist
NextLookup ==
    \/ \E p \in Workers, a \in {1} \cup (AppIds \ Apps) : create_deployment(p, a)
    \/ Steps
    \/ \E done \in SUBSET DeploymentIds :
          cleanup_failed_deployments(done) /\ UNCHANGED reply
    \/ \E d \in 1..(MaxDeployments + 1) : TriggerMissing(d)

SpecLookup == Init /\ [][NextLookup]_vars

\* the requests, and get_app_metrics called for the registered applications
\* and for application 4, which does not exist
NextMetrics ==
    \/ Next
    \/ \E a \in AppIds : get_app_metrics(a)

SpecMetrics == Init /\ [][NextMetrics]_vars

\* requests for application 1, and cleanup_failed_deployments run on its
\* own, its outcome handed to the caller
NextSweep ==
    \/ \E p \in Workers : create_deployment(p, 1)
    \/ Steps
    \/ \E done \in SUBSET DeploymentIds : SweepRun(done)

SpecSweep == Init /\ [][NextSweep]_vars

\* requests for application 1, and cleanup_old_container run on its own for
\* application 1 and for application 2 (which has no deployment), its
\* outcome handed to the caller
NextRetire ==
    \/ \E p \in Workers : create_deployment(p, 1)
    \/ Steps
    \/ \E a \in {1, 2} : cleanup_old_container(a)

SpecRetire == Init /\ [][NextRetire]_vars

\* the websocket endpoint alone: websockets are opened under a user id, their
\* peers go away, their endpoints unregister them, and metrics messages
\* are sent to a user
NextWs ==
    \/ \E s \in Sockets, u \in Users : connect(s, u)
    \/ \E s \in Sockets : PeerCloses(s)
    \/ \E s \in Sockets : disconnect(s)
    \/ \E u \in Users : send_personal_message(u)
    \/ \E outcome \in {"ok", "WebSocketDisconnect", "Exception"} :
          send_json(outcome)

SpecWs == Init /\ [][NextWs]_vars

\* the metrics task beside the requests: the task is started on the event
\* loop of one of the worker processes, which serve requests for
\* application 1
NextCollector ==
    \/ /\ \/ \E p \in Workers : create_deployment(p, 1)
          \/ Steps
       /\ LoopTurn
    \/ \E app_ids \in AppIdLists, p \in Workers :
          start_metrics_collection(app_ids, p)
    \/ collect_host_metrics
    \/ \E outcome \in {"ok", "raises"} : collect_container_metrics(outcome)
    \/ SleepReturns
    \/ Cancel

SpecCollector == Init /\ [][NextCollector]_vars

\* ==== properties ==========================================================
\* the step in which worker p's trigger_deployment returns to its caller
Returns(p) == w[p].pc = "finally" /\ w'[p].pc = "idle"

\* the row trigger_deployment hands back (the refresh after the last commit)
Returned(p) == deployments'[w[p].dep]

InFlightOf(a) ==
    {d \in DeploymentIds : /\ deployments[d].application_id = a
                           /\ deployments[d].status \in InFlight}

\* C1: for every application, at most one of its deployments is in PENDING,
\* BUILDING or DEPLOYING in every reachable state.
C1_AtMostOneInFlight ==
    \A a \in Apps : Cardinality(InFlightOf(a)) <= 1

\* C2: a new (PENDING) deployment of an application that has an earlier
\* deployment in flight is never advanced to BUILDING.
C2_ConflictRejected ==
    [][\A d \in DeploymentIds :
          (/\ deployments[d].status = PENDING
           /\ \E e \in InFlightOf(deployments[d].application_id) : e < d)
          => deployments'[d].status # BUILDING]_vars

\* C3: when trigger_deployment returns a FAILED deployment, the container_id
\* of the returned row is null.
C3_FailedReturnsNoContainer ==
    [][\A p \in Workers :
          (Returns(p) /\ Returned(p).status = FAILED)
          => Returned(p).container_id = NoId]_vars

\* C4: in a trigger_deployment that ends in FAILED, the stop_container calls
\* of the execution are exactly one call on the container run_container
\* returned in it, or none when run_container returned nothing.
C4_StopIffRan ==
    \A p \in Workers :
        (w[p].pc = "finally" /\ w[p].mstatus = FAILED)
        => w[p].stopInv = IF w[p].ranC # NoId THEN <<w[p].ranC>> ELSE <<>>

\* C5 witness: an execution whose admission check returned false has gone
\* through its handler
C5_Witness ==
    \E p \in Workers :
        w[p].pc = "finally" /\ w[p].admitted = "no" /\ w[p].mstatus = FAILED

\* C5: once check_availability returned false, run_container is not called
\* in that execution, and the execution returns the deployment FAILED.
C5_DeniedNeverRuns ==
    [][\A p \in Workers :
          /\ w'[p].admitted = "no" => w'[p].runCalls = 0 /\ w'[p].ranC = NoId
          /\ (Returns(p) /\ w[p].admitted = "no")
             => Returned(p).status = FAILED]_vars

\* C6 witness: an execution is about to return SUCCESSFUL after its route
\* update, for an application that already has a routed container
C6_Witness ==
    \E p \in Workers :
        /\ w[p].pc = "finally" /\ w[p].mstatus = SUCCESSFUL
        /\ Len(w[p].routeInv) = 1
        /\ w[p].preC # NoId

\* C6: a trigger_deployment that ends in SUCCESSFUL made exactly one
\* update_config call, for the deployment's application and the container
\* this execution started.
C6_OneRouteUpdate ==
    \A p \in Workers :
        (w[p].pc = "finally" /\ w[p].mstatus = SUCCESSFUL)
        => /\ w[p].ranC # NoId
           /\ w[p].routeInv = <<[app |-> AppOf(p), container |-> w[p].ranC]>>

\* C7: when trigger_deployment(D2) began with D1 the application's latest
\* SUCCESSFUL deployment holding container C1, and returns D2 SUCCESSFUL:
\* C1 was stopped exactly once and runs no more, D1.container_id is null,
\* the container started for D2 is running and is D2's container_id.
C7_RetiresPrevious ==
    [][\A p \in Workers :
          (/\ Returns(p)
           /\ Returned(p).status = SUCCESSFUL
           /\ w[p].pre # NoId /\ w[p].pre # w[p].dep /\ w[p].preC # NoId)
          => /\ ctrs'[w[p].preC].stops = 1
             /\ ~ctrs'[w[p].preC].running
             /\ deployments'[w[p].pre].container_id = NoId
             /\ ctrs'[w[p].ranC].running
             /\ Returned(p).container_id = w[p].ranC]_vars

\* C8: a deployment whose status is SUCCESSFUL or FAILED keeps that status
\* in every later step.
C8_TerminalIsFinal ==
    [][\A d \in DeploymentIds :
          deployments[d].status \in Terminal
          => deployments'[d].status = deployments[d].status]_vars

\* C9: trigger_deployment returns without an exception and hands back the
\* deployment in SUCCESSFUL or FAILED.
C9_ReturnsTerminal ==
    [][\A p \in Workers :
          Returns(p) => /\ w[p].raised = NoText
                        /\ Returned(p).status \in Terminal]_vars

\* the failure an execution's history shows, read from the calls it made
FailureOf(h) ==
    IF h.admitted = "na" THEN BuildError
    ELSE IF h.admitted = "no" THEN InsufficientResources
    ELSE IF h.ranC = NoId THEN RunError
    ELSE IF h.routeInv = <<>> THEN HealthCheckFailed
    ELSE IF h.stopInv # <<>> /\ h.stopInv[1] # h.ranC THEN StopError
    ELSE RouteError

\* C10 witness: two FAILED rows with different causes
C10_Witness ==
    \E d, e \in DeploymentIds :
        /\ deployments[d].status = FAILED /\ deployments[e].status = FAILED
        /\ deployments[d].logs = InsufficientResources
        /\ deployments[e].logs = HealthCheckFailed

\* C10: a FAILED deployment always has a non-null logs field, and the logs
\* committed with FAILED name the failure that ended the execution.
C10_FailedHasCause ==
    [][/\ \A d \in DOMAIN deployments' :
             deployments'[d].status = FAILED => deployments'[d].logs \in Causes
       /\ \A p \in Workers :
             (Returns(p) /\ Returned(p).status = FAILED)
             => Returned(p).logs = FailureOf(w[p])]_vars

\* C11 witness: a call with an id in no table has raised its not-found
\* error while deployments exist
C11_Witness ==
    /\ reply.op = "trigger_deployment" /\ reply.raised
    /\ Len(deployments) > 0

\* C11: create_deployment with an application id in no table and
\* trigger_deployment with a deployment id in no table raise their not-found
\* error, with the Deployment table, the engine and the routing untouched;
\* no row ever names an application that does not exist.
C11_NotFoundSurfaced ==
    [][/\ \A p \in Workers, a \in AppIds \ Apps :
             create_deployment(p, a)
             => /\ reply' = NotFound("create_deployment", ApplicationNotFound)
                /\ UNCHANGED <<deployments, ctrs, route, w>>
       /\ \A d \in 1..(MaxDeployments + 1) :
             TriggerMissing(d)
             => /\ reply' = NotFound("trigger_deployment", DeploymentNotFound)
                /\ UNCHANGED <<deployments, ctrs, route, w>>
       /\ \A d \in DOMAIN deployments' :
             deployments'[d].application_id \in Apps]_vars

C13_SweepContinues ==
    [][\A done \in SUBSET DeploymentIds :
          SweepRun(done)
          => \A d \in FailedWithContainer :
                /\ \E i \in DOMAIN reply'.calls :
                      reply'.calls[i] =
                         EngineCall("stop_container", deployments[d].container_id)
                /\ d \in done <=> deployments'[d].container_id = NoId]_vars

\* the application has no SUCCESSFUL deployment, or its latest SUCCESSFUL
\* deployment holds no container
NothingToClean(a) ==
    LET old == LatestWithStatus(a, SUCCESSFUL)
    IN old = NoId \/ deployments[old].container_id = NoId

C15_CleanupFailureKeepsSuccess ==
    [][\A p \in Workers :
          (w[p].pc = "cleanup" /\ w'[p].pc # "cleanup")
          => w'[p].mstatus = SUCCESSFUL]_vars

\* the container of the application's latest SUCCESSFUL deployment, NoId
\* when it has none
ActiveContainer(a) ==
    LET d == LatestWithStatus(a, SUCCESSFUL)
    IN IF d = NoId THEN NoId ELSE deployments[d].container_id

\* C16: get_app_metrics for a registered application without an active
\* container returns the error value 'No active deployment found', raises
\* nothing and makes no stats call.
C16_NoActiveDeploymentValue ==
    [][\A a \in Apps :
          (get_app_metrics(a) /\ ActiveContainer(a) = NoId)
          => /\ reply'.error = NoActiveDeployment
             /\ ~reply'.raised
             /\ reply'.calls = <<>>]_vars

\* C17: get_app_metrics for an application id in no table returns the error
\* value 'Application not found', which differs from the value returned
\* for a registered application without an active container.
C17_ApplicationNotFoundValue ==
    [][\A a \in AppIds \ Apps :
          get_app_metrics(a)
          => /\ reply'.error = ApplicationNotFound
             /\ reply'.error # NoActiveDeployment]_vars

\* C18: get_app_metrics for an application whose latest SUCCESSFUL
\* deployment holds a container returns no error and the cpu_usage,
\* memory_usage, network_rx and network_tx the engine reports for that
\* container, with a timestamp, after one stats call on that container.
C18_MetricsOfActiveContainer ==
    [][\A a \in Apps :
          (get_app_metrics(a) /\ ActiveContainer(a) # NoId)
          => LET c == ActiveContainer(a)
             IN /\ reply'.error = NoText
                /\ reply'.calls = <<EngineCall("get_container_stats", c)>>
                /\ reply'.value =
                      {<<"cpu_usage", EngineStats(c).cpu_usage>>,
                       <<"memory_usage", EngineStats(c).memory_usage>>,
                       <<"network_rx", EngineStats(c).network_rx>>,
                       <<"network_tx", EngineStats(c).network_tx>>,
                       <<"timestamp", Now>>}]_vars

\* C19: a deployment that holds a container_id is DEPLOYING or SUCCESSFUL,
\* and once no execution works on it the container it names has not been
\* stopped.
C19_ContainerOnlyWhileLive ==
    \A d \in DeploymentIds :
        deployments[d].container_id # NoId
        => /\ deployments[d].status \in {DEPLOYING, SUCCESSFUL}
           /\ (\A p \in Workers : w[p].dep # d)
              => IsRunning(deployments[d].container_id)

\* the SUCCESSFUL deployments of an application that hold a container
LiveOf(a) ==
    {d \in DeploymentIds : /\ deployments[d].application_id = a
                           /\ deployments[d].status = SUCCESSFUL
                           /\ deployments[d].container_id # NoId}

\* C20: of every application at most one SUCCESSFUL deployment holds a
\* container_id, and it is the application's latest SUCCESSFUL deployment.
C20_OneLiveContainer ==
    \A a \in Apps :
        /\ Cardinality(LiveOf(a)) <= 1
        /\ \A d \in LiveOf(a) : d = LatestWithStatus(a, SUCCESSFUL)

\* ---- Application.status ---------------------------------------------------

\* C25: an Application's status is 'created' while none of its deployments
\* has finished, and when a trigger_deployment returns it is 'running' if
\* the deployment ended SUCCESSFUL and 'failed' if it ended FAILED.
C25_StatusMirrorsLatest ==
    [][/\ \A a \in Apps :
            (\A d \in DOMAIN deployments' :
                deployments'[d].application_id = a
                => deployments'[d].status \notin Terminal)
            => applications'[a].status = "created"
       /\ \A p \in Workers :
            Returns(p)
            => applications'[AppOf(p)].status =
                  IF Returned(p).status = SUCCESSFUL THEN "running"
                  ELSE "failed"]_vars

\* ---- admission and current load -------------------------------------------

\* the containers the engine reports as running
LiveContainers == {c \in ContainerIds : IsRunning(c)}

RECURSIVE SumCpu(_)
SumCpu(cs) ==
    IF cs = {} THEN 0
    ELSE LET c == CHOOSE x \in cs : TRUE
         IN cpu_limit(ctrs[c].app) + SumCpu(cs \ {c})

RECURSIVE SumMemory(_)
SumMemory(cs) ==
    IF cs = {} THEN 0
    ELSE LET c == CHOOSE x \in cs : TRUE
         IN memory_limit(ctrs[c].app) + SumMemory(cs \ {c})

\* the sums of lines 41-44 taken over the live containers, each counted
\* with the cpu and memory it was started with
live_usage ==
    [cpu_percent |-> SumCpu(LiveContainers),
     memory_mb |-> SumMemory(LiveContainers)]

\* C26: the admission check of trigger_deployment returns false exactly when
\* the cpu of the live containers plus the requested cpu exceeds
\* MAX_CPU_PERCENT or their memory plus the requested memory exceeds
\* MAX_MEMORY_GB * 1024.
C26_AdmissionFromLoad ==
    [][\A p \in Workers :
          (w[p].pc = "admit" /\ w'[p].pc # "admit")
          => (w'[p].admitted = "no"
              <=> \/ live_usage.cpu_percent + cpu_limit(AppOf(p))
                       > MAX_CPU_PERCENT
                  \/ live_usage.memory_mb + memory_limit(AppOf(p))
                       > MAX_MEMORY_GB * 1024)]_vars

\* ---- order of route updates -----------------------------------------------

\* C27: when an execution returns its deployment SUCCESSFUL and no other
\* execution for the same application is in progress, the route of the
\* application points to the container of that deployment, the one that
\* reached SUCCESSFUL last.
C27_RouteFollowsLastSuccess ==
    [][\A p \in Workers :
          (/\ Returns(p)
           /\ Returned(p).status = SUCCESSFUL
           /\ \A q \in Workers \ {p} :
                 w[q].pc = "idle" \/ AppOf(q) # AppOf(p))
          => route'[AppOf(p)] = w[p].ranC]_vars

\* ---- order of the steps ---------------------------------------------------

\* the steps of the try block in the order of the text (lines 53-87)
StepOrder ==
    <<"build_image", "check_availability", "run_container", "_check_health",
      "update_config", "cleanup_old_container">>

\* C28 witness: an execution has called all six steps and is about to
\* commit SUCCESSFUL
C28_Witness ==
    \E p \in Workers :
        /\ w[p].pc = "finally" /\ w[p].mstatus = SUCCESSFUL
        /\ Len(w[p].calls) = Len(StepOrder)

\* C28: the steps one trigger_deployment has called are an initial part of
\* build_image, check_availability, run_container, health check,
\* update_config, cleanup_old_container, each called once and only after
\* the one before it returned success; the deployment is set SUCCESSFUL only
\* when all six returned success.
C28_StepsInOrder ==
    \A p \in Workers :
        LET c == w[p].calls
        IN /\ Len(c) <= Len(StepOrder)
           /\ \A i \in DOMAIN c :
                 /\ c[i].fn = StepOrder[i]
                 /\ i < Len(c) => c[i].ok
           /\ w[p].mstatus = SUCCESSFUL
              => /\ Len(c) = Len(StepOrder)
                 /\ \A i \in DOMAIN c : c[i].ok

\* ---- health check ---------------------------------------------------------

\* C30 witness: the container exited during the wait, the inspection
\* reported it not running and the execution is about to commit FAILED
C30_Witness ==
    \E p \in Workers :
        /\ w[p].pc = "finally" /\ w[p].inspected = "exited"
        /\ w[p].mstatus = FAILED

\* C30: an execution inspects its container at most once; it sets the
\* deployment SUCCESSFUL only if that inspection reported the container
\* running; when the inspection reported it not running, or raised, the
\* health check returned false, no update_config call is made and the
\* execution returns the deployment FAILED.
C30_HealthFailsClosed ==
    [][\A p \in Workers :
          /\ Cardinality({i \in DOMAIN w'[p].calls :
                             w'[p].calls[i].fn = "_check_health"}) <= 1
          /\ w'[p].mstatus = SUCCESSFUL => w'[p].inspected = "running"
          /\ w'[p].inspected \in {"exited", "error"}
             => /\ w'[p].calls[Len(w'[p].calls)] =
                      [fn |-> "_check_health", ok |-> FALSE]
                /\ w'[p].mstatus = FAILED
                /\ w'[p].routeInv = <<>>
          /\ (Returns(p) /\ w[p].inspected \in {"exited", "error"})
             => Returned(p).status = FAILED]_vars

\* ---- status transitions ---------------------------------------------------

\* position of a status on the path PENDING, BUILDING, DEPLOYING, SUCCESSFUL
Rank(st) ==
    IF st = PENDING THEN 1
    ELSE IF st = BUILDING THEN 2
    ELSE IF st = DEPLOYING THEN 3
    ELSE 4

\* C29: a change of a deployment's status goes forward along PENDING,
\* BUILDING, DEPLOYING, SUCCESSFUL or from one of the first three to FAILED;
\* DEPLOYING is entered only by an execution whose build_image and
\* check_availability returned success, and SUCCESSFUL only from DEPLOYING
\* with a non-null container_id.
C29_StatusMovesForward ==
    [][\A d \in DeploymentIds :
          LET old == deployments[d].status
              new == deployments'[d].status
          IN old # new
             => /\ \/ new = FAILED /\ old \in InFlight
                   \/ new # FAILED /\ old # FAILED /\ Rank(old) < Rank(new)
                /\ new = DEPLOYING
                   => \E p \in Workers :
                         /\ w'[p].dep = d
                         /\ w'[p].calls =
                               <<[fn |-> "build_image", ok |-> TRUE],
                                 [fn |-> "check_availability", ok |-> TRUE]>>
                /\ new = SUCCESSFUL
                   => /\ old = DEPLOYING
                      /\ deployments'[d].container_id # NoId]_vars

\* ---- websocket registry: properties ---------------------------------------

\* websocket s is listed under user u
Listed(s, u) ==
    u \in DOMAIN active_connections /\ InList(s, active_connections[u])

\* number of send_json calls made on websocket s by the call on record
Count(s, seq) == Cardinality({i \in DOMAIN seq : seq[i] = s})

\* C21: when send_personal_message has returned, no websocket whose send
\* raised (WebSocketDisconnect or any other exception) is still listed under
\* the user.
C21_FailedChannelRemoved ==
    publish.pc = "returned"
    => \A s \in publish.failed : ~Listed(s, publish.user)

\* C22: when send_personal_message has returned, no exception has left it,
\* and, no other task having changed the user's entry meanwhile, every
\* websocket listed when the call began whose own send did not raise has
\* been sent the message exactly once.
C22_FailureIsolated ==
    publish.pc = "returned"
    => /\ publish.raised = NoText
       /\ ~publish.others
          => \A i \in DOMAIN publish.start :
                publish.start[i] \notin publish.failed
                => Count(publish.start[i], publish.sent) = 1

\* C23 witness: a websocket was connected and disconnected again, its user
\* has left the registry and another user is still listed
C23_Witness ==
    /\ \E s \in Sockets :
          sockets[s].left /\ sockets[s].user \notin DOMAIN active_connections
    /\ active_connections # [u \in {} |-> <<>>]

\* C23: no user maps to an empty list; a connect step lists the websocket
\* under the user; a disconnect step that removes a user's last websocket
\* removes the user; connect followed by disconnect gives the registry back
\* as it was.
C23_RegistryRoundTrip ==
    [][/\ \A u \in DOMAIN active_connections' : active_connections'[u] # <<>>
       /\ \A s \in Sockets, u \in Users :
             connect(s, u)
             => /\ Listed(s, u)'
                /\ Removed(active_connections', s, u) = active_connections
       /\ \A s \in Sockets :
             (/\ disconnect(s)
              /\ sockets[s].user \in DOMAIN active_connections
              /\ active_connections[sockets[s].user] = <<s>>)
             => sockets[s].user \notin DOMAIN active_connections']_vars

\* C24: a send_personal_message call for a user without an entry returns at
\* once with nothing sent, nothing changed and nothing raised; a call that
\* has returned, no other task having changed the user's entry meanwhile,
\* has called send_json exactly once on every websocket listed under the
\* user when it began and on no other websocket.
C24_SentOnceToEach ==
    [][/\ \A u \in Users :
             (send_personal_message(u) /\ u \notin DOMAIN active_connections)
             => /\ publish'.pc = "returned"
                /\ publish'.sent = <<>>
                /\ publish'.raised = NoText
                /\ active_connections' = active_connections
       /\ (publish'.pc = "returned" /\ ~publish'.others)
          => \A s \in Sockets :
                Count(s, publish'.sent) =
                   IF InList(s, publish'.start) THEN 1 ELSE 0]_vars

\* ---- admission under concurrency ------------------------------------------

\* C31 witness: two executions for different applications have each started
\* a container that the other's admission check did not yet find started,
\* both containers run, and their cpu together exceeds MAX_CPU_PERCENT
C31_Witness ==
    \E p \in Workers, q \in Workers :
        /\ p # q
        /\ w[p].pc # "idle" /\ w[q].pc # "idle"
        /\ AppOf(p) # AppOf(q)
        /\ w[p].admitted = "yes" /\ w[q].admitted = "yes"
        /\ IsRunning(w[p].ranC) /\ IsRunning(w[q].ranC)
        /\ w[p].started < w[q].ranC /\ w[q].started < w[p].ranC
        /\ cpu_limit(AppOf(p)) + cpu_limit(AppOf(q)) > MAX_CPU_PERCENT

\* C31: the admission check of an execution takes no account of an execution
\* for another application that passed its check and has not yet started its
\* container: a request that fits the ceilings by itself is admitted, and
\* the execution admitted earlier is left to start its container.
C31_CheckThenStartNotAtomic ==
    [][\A p \in Workers, q \in Workers :
          (/\ p # q
           /\ w[p].pc = "admit" /\ w'[p].pc # "admit"
           /\ w[q].pc = "run" /\ w[q].admitted = "yes"
           /\ AppOf(p) # AppOf(q)
           /\ cpu_limit(AppOf(p)) <= MAX_CPU_PERCENT
           /\ memory_limit(AppOf(p)) <= MAX_MEMORY_GB * 1024)
          => /\ w'[p].admitted = "yes" /\ w'[p].pc = "run"
             /\ w'[q] = w[q]]_vars

\* ---- what a failed execution leaves behind --------------------------------

\* C34: no step of an execution that does not end SUCCESSFUL changes another
\* deployment that is SUCCESSFUL: the row keeps its status and its
\* container_id and its container is left as it is; so the previous live
\* deployment of the application is as it was when an execution returns
\* FAILED.
C34_FailedLeavesPrevious ==
    [][\A p \in Workers :
          (/\ w[p].pc \notin {"idle", "created"}
           /\ w'[p] # w[p]
           /\ w'[p].mstatus # SUCCESSFUL
           /\ ~(Returns(p) /\ w[p].mstatus = SUCCESSFUL))
          => \A d \in DeploymentIds :
                (d # w[p].dep /\ deployments[d].status = SUCCESSFUL)
                => /\ deployments'[d] = deployments[d]
                   /\ deployments[d].container_id # NoId
                      => ctrs'[deployments[d].container_id]
                            = ctrs[deployments[d].container_id]]_vars

\* ---- route and containers at rest -----------------------------------------

\* C35: whenever no deployment of an application is PENDING, BUILDING or
\* DEPLOYING, a route that has been applied for it points to a running
\* container, the one held by its latest SUCCESSFUL deployment.
C35_RouteToLiveContainer ==
    \A a \in Apps :
        (InFlightOf(a) = {} /\ route[a] # NoId)
        => /\ IsRunning(route[a])
           /\ route[a] = ActiveContainer(a)

\* C36: whenever no trigger_deployment is in progress, every container the
\* engine still runs is the container_id of a SUCCESSFUL deployment.
C36_NoContainerLeaked ==
    (\A p \in Workers : w[p].pc \in {"idle", "created"})
    => \A c \in LiveContainers :
          \E d \in DeploymentIds :
             /\ deployments[d].status = SUCCESSFUL
             /\ deployments[d].container_id = c

\* C38: a disconnect(ws, u) for a websocket that is not, or no longer,
\* registered under u raises no error and leaves the registry unchanged.
C38_DisconnectRepeatable ==
    [][\A s \in Sockets :
          (/\ ~sockets[s].left
           /\ sockets'[s].left
           /\ ~Listed(s, sockets[s].user))
          => /\ sockets'[s].raised = NoText
             /\ active_connections' = active_connections]_vars

\* C37: a sample of one application that fails with an engine error other
\* than not-found does not stop start_metrics_collection: the loop goes on
\* to the remaining applications and to the wait of the iteration.
C37_SampleFailureIsolated ==
    [][(collector.pc = "apps" /\ collector'.raised # NoText)
          => collector'.pc \in {"apps", "sleep"}]_vars

\* C33: start_metrics_collection never terminates by itself, and when it
\* reaches the wait of an iteration it has sampled the host once and then
\* every application of app_ids exactly once, in list order.
C33_SamplesOncePerInterval ==
    /\ collector.pc # "ended"
    /\ collector.pc = "sleep"
          => collector.sampled = <<HostSample>> \o collector.app_ids

\* C32: while a trigger_deployment call is in its build, in the health-check
\* wait or in an engine or routing call, the started metrics task is able
\* to take its next step.
C32_DeploymentNeverBlocksMetrics ==
    (/\ collector.pc \in {"host", "apps", "sleep"}
     /\ \E p \in Workers :
           w[p].pc \in {"build", "run", "health", "route", "cleanup"})
    => Runnable

====
